---- MODULE Spec2Model ----
(***************************************************************************)
(* Model of the robstride driver (actuator/rust/robstride/src/lib.rs):     *)
(* the Motors session (request/reply operations over the serial link) and  *)
(* the MotorsSupervisor (shared maps, flags, the control thread and the    *)
(* public methods called by the application thread).                       *)
(*                                                                         *)
(* The control thread advances one serial round trip (send_command) or one *)
(* lock acquisition at a time; the application thread is a single caller   *)
(* that runs one public method at a time and may block inside it.          *)
(***************************************************************************)
EXTENDS Integers, Sequences, FiniteSets, TLC

\* ------------------------------------------------------------------ bounds

\* Largest motor id configured at construction: the configured ids are 1..NumMotors.
NumMotors == 2

\* The control thread starts a new iteration only while every total_commands
\* entry is below this cap (keeps the u64 counters finite).
MaxCommands == 2

\* Setpoint values offered to the setters are -MaxVal..MaxVal.
MaxVal == 1

\* Number of setpoint setter calls the application makes.
MaxCalls == 3

\* Longest id list passed to a session operation called directly.
MaxList == 2

\* Number of frames written to the port in the byte-level runs.
MaxFrames == 2

\* Most frames one send_commands call writes.
MaxBatch == 2

\* ------------------------------------------------------- program constants

CAN_ID_DEBUG_UI == 253

\* Motor ids passed to Supervisor::new, and an id that was never configured.
Ids == 1..NumMotors
UnknownId == NumMotors + 5
AllIds == Ids \cup {UnknownId}

\* motor_infos: id 1 is a Type01 (single encoder, zero_on_init), the others Type04.
MotorTypeOf(id) == IF id = 1 THEN "Type01" ELSE "Type04"

ROBSTRIDE_CONFIGS(t) ==
    CASE t = "Type01" -> [p_min |-> -25, p_max |-> 25, v_min |-> -88, v_max |-> 88,
                          kp_min |-> 0, kp_max |-> 1000, kd_min |-> 0, kd_max |-> 10,
                          t_min |-> -24, t_max |-> 24, zero_on_init |-> TRUE]
      [] t = "Type02" -> [p_min |-> -25, p_max |-> 25, v_min |-> -88, v_max |-> 88,
                          kp_min |-> 0, kp_max |-> 1000, kd_min |-> 0, kd_max |-> 10,
                          t_min |-> -24, t_max |-> 24, zero_on_init |-> FALSE]
      [] t = "Type03" -> [p_min |-> -25, p_max |-> 25, v_min |-> -40, v_max |-> 40,
                          kp_min |-> 0, kp_max |-> 10000, kd_min |-> 0, kd_max |-> 200,
                          t_min |-> -120, t_max |-> 120, zero_on_init |-> FALSE]
      [] t = "Type04" -> [p_min |-> -25, p_max |-> 25, v_min |-> -30, v_max |-> 30,
                          kp_min |-> 0, kp_max |-> 10000, kd_min |-> 0, kd_max |-> 200,
                          t_min |-> -240, t_max |-> 240, zero_on_init |-> FALSE]

\* Physical quantities are integers in units of 0.5 (12.5 rad is 25), so that the
\* ranges of the configuration table stay integral.

\* Motors::new: motor_configs, id -> config of its type.
motor_configs == [id \in Ids |-> ROBSTRIDE_CONFIGS(MotorTypeOf(id))]

\* MotorControlParams::default()
DefaultParams == [position |-> 0, velocity |-> 0, kp |-> 0, kd |-> 0, torque |-> 0]

Vals == (0 - MaxVal)..MaxVal
\* MotorControlParams values passed to set_params and send_motor_controls.
ParamChoices ==
    {[position |-> v, velocity |-> v, kp |-> g, kd |-> g, torque |-> v] :
        v \in Vals, g \in Vals}

\* Rates (Hz) passed as min_update_rate.
Rates == {3, 10}

\* All orders in which a HashMap / HashSet with key set S may be iterated.
KeyOrders(S) ==
    {s \in [1..Cardinality(S) -> S] : \A a, b \in 1..Cardinality(S) : s[a] = s[b] => a = b}

Range(s) == {s[k] : k \in 1..Len(s)}

Zeros8 == <<0, 0, 0, 0, 0, 0, 0, 0>>

\* No codec function has been applied yet.
NoCodec == [op |-> "none"]

\* -------------------------------------------------------------- frame codec

\* float_to_uint: ((x - x_min) * (2^bits - 1) / span) as u16; the cast truncates
\* toward zero and saturates at 0 and 65535.
float_to_uint(x, x_min, x_max) ==
    LET num == (x - x_min) * 65535
        span == x_max - x_min
    IN  IF num <= 0 THEN 0
        ELSE IF num \div span > 65535 THEN 65535 ELSE num \div span

\* u16::to_be_bytes
to_be_bytes(u) == <<u \div 256, u % 256>>

\* A CanPack whose len names only the first four bytes of its data.
PackShort(mode, id, data, payload) ==
    [mode |-> mode, id |-> id, data |-> data, len |-> 4, payload |-> payload]

\* A CanPack as written by tx_packs: ex_id {id, data, mode, res = 0}, len = 8, data.
Pack(mode, id, data, payload) ==
    [mode |-> mode, id |-> id, data |-> data, len |-> 8, payload |-> payload]

\* CanComMode as u8.
CanComMode(m) ==
    CASE m = "MotorCtrl" -> 1
      [] m = "MotorFeedback" -> 2
      [] m = "MotorIn" -> 3
      [] m = "MotorReset" -> 4
      [] m = "MotorZero" -> 6
      [] m = "ParaWrite" -> 8
      [] m = "ParaRead" -> 9
      [] m = "SdoRead" -> 17
      [] m = "SdoWrite" -> 18

\* pack_bits(&[id, data, mode, res], &[8, 16, 5, 3]): every value is masked
\* to its width and or-ed in at the running shift.  The 32-bit word is kept as
\* its low 24 bits (id, data) and its high 8 bits (mode, res), so that every
\* intermediate value stays below 2^31.
pack_bits(id, data, mode, res) ==
    [low  |-> (id % 256) + (data % 65536) * 256,
     high |-> (mode % 32) + (res % 8) * 32]

\* pack_ex_id on an ExId with mode as its ordinal:
\* ((pack_bits(..) << 3) | 0x00000004).to_be_bytes().  The shift is a u32
\* shift: bits 29..31 of the packed word, the top three bits of its high byte,
\* are shifted out.
ExIdBytes(ex_id) ==
    LET word == pack_bits(ex_id.id, ex_id.data, ex_id.mode, ex_id.res)
        low == word.low * 8
        high == (word.high * 8) % 256
    IN  <<(high + low \div 16777216) % 256,
          (low \div 65536) % 256,
          (low \div 256) % 256,
          (low % 256) + 4>>

\* pack_ex_id on the ExId of a CanPack the session builds: res is 0 in all of them.
pack_ex_id(pack) ==
    ExIdBytes([id |-> pack.id, data |-> pack.data, mode |-> CanComMode(pack.mode),
               res |-> 0])

\* tx_packs: the bytes of one frame: "AT", the extended id, len, data[..len],
\* "\r\n".
tx_bytes(pack) ==
    <<65, 84>> \o pack_ex_id(pack) \o <<pack.len>>
    \o SubSeq(pack.payload, 1, pack.len) \o <<13, 10>>

\* unpack_ex_id: the inverse on four big-endian bytes, addr >> 3 split into
\* id (8 bits), data (16 bits), mode (5 bits) and res (the 3 bits that are left
\* of a 32-bit word shifted right by 3, always 0).
unpack_ex_id(addr) ==
    [id   |-> ((addr[3] * 256 + addr[4]) \div 8) % 256,
     data |-> (((addr[1] % 8) * 65536 + addr[2] * 256 + addr[3]) \div 8) % 65536,
     mode |-> (addr[1] \div 8) % 32,
     res  |-> 0]

\* rx_unpacks, the loop over buffer.chunks(17): every chunk of the buffer is
\* looked at, the last one may be shorter.  A chunk of 17 bytes that starts with
\* "AT" gives a CanPack with data = chunk[7..7 + len], which is out of bounds
\* for len > 10; any other chunk returns the error and no pack.
RECURSIVE rx_chunks(_)
rx_chunks(buffer) ==
    IF buffer = <<>> THEN [res |-> "ok", packs |-> <<>>]
    ELSE LET n == IF Len(buffer) < 17 THEN Len(buffer) ELSE 17
             chunk == SubSeq(buffer, 1, n)
         IN  IF Len(chunk) = 17 /\ chunk[1] = 65 /\ chunk[2] = 84
             THEN IF 7 + chunk[7] > 17 THEN [res |-> "panic", packs |-> <<>>]
                  ELSE LET pack == [ex_id |-> unpack_ex_id(SubSeq(chunk, 3, 6)),
                                    len |-> chunk[7],
                                    data |-> SubSeq(chunk, 8, 7 + chunk[7])]
                           later == rx_chunks(SubSeq(buffer, n + 1, Len(buffer)))
                       IN  IF later.res = "ok"
                           THEN [res |-> "ok", packs |-> <<pack>> \o later.packs]
                           ELSE later
             ELSE [res |-> "err", packs |-> <<>>]

\* rx_unpacks(count) once its read loop has gathered buffer.
rx_unpacks(buffer, count) == rx_chunks(buffer)

\* uint_to_float: x_int * span / (2^bits - 1) + x_min, bits = 16.  The result
\* is a fraction; the operator gives it multiplied by 65535 (still in units of
\* 0.5), which is exact.  The f32 result is that value rounded to 24 bits; for
\* x_int = 0 it is x_min exactly.
uint_to_float(x_int, x_min, x_max) ==
    LET span == x_max - x_min
        offset == x_min
    IN  x_int * span + offset * 65535

\* u16::from_be_bytes
from_be_bytes(hi, lo) == hi * 256 + lo

\* unpack_raw_feedback: can_id, faults and MotorMode are bit fields of
\* ex_id.data; the three readings are 0 unless the frame is a MotorFeedback
\* frame, whose data[0..6] holds them (out of bounds for a shorter data).
unpack_raw_feedback(pack) ==
    LET can_id == pack.ex_id.data % 256
        faults == (pack.ex_id.data % 16384) \div 256
        motor_mode == (pack.ex_id.data \div 16384) % 4
    IN  IF pack.ex_id.mode # CanComMode("MotorFeedback")
        THEN [res |-> "ok", can_id |-> can_id, pos_int |-> 0, vel_int |-> 0,
              torque_int |-> 0, mode |-> motor_mode, faults |-> faults]
        ELSE IF Len(pack.data) < 6 THEN [res |-> "panic"]
        ELSE [res |-> "ok", can_id |-> can_id,
              pos_int |-> from_be_bytes(pack.data[1], pack.data[2]),
              vel_int |-> from_be_bytes(pack.data[3], pack.data[4]),
              torque_int |-> from_be_bytes(pack.data[5], pack.data[6]),
              mode |-> motor_mode, faults |-> faults]

\* Motors::unpack_feedback: the raw readings scaled into the ranges of the
\* motor's config; Err(NotFound) for a can_id without a config.
unpack_feedback(pack) ==
    LET raw_feedback == unpack_raw_feedback(pack)
    IN  IF raw_feedback.res = "panic" THEN [res |-> "panic"]
        ELSE IF raw_feedback.can_id \in DOMAIN motor_configs
        THEN LET config == motor_configs[raw_feedback.can_id]
             IN  [res |-> "ok",
                  can_id |-> raw_feedback.can_id,
                  position |-> uint_to_float(raw_feedback.pos_int, config.p_min, config.p_max),
                  velocity |-> uint_to_float(raw_feedback.vel_int, config.v_min, config.v_max),
                  torque |-> uint_to_float(raw_feedback.torque_int, config.t_min, config.t_max),
                  mode |-> raw_feedback.mode,
                  faults |-> raw_feedback.faults]
        ELSE [res |-> "err"]

\* send_reset / send_start: 8 zero bytes, host id in ex_id.data.
ResetPack(id) == Pack("MotorReset", id, CAN_ID_DEBUG_UI, Zeros8)
StartPack(id) == Pack("MotorIn", id, CAN_ID_DEBUG_UI, Zeros8)

\* send_set_zeros, phase "Zero".
ZeroPack(id) == Pack("MotorZero", id, CAN_ID_DEBUG_UI, <<1, 0, 0, 0, 0, 0, 0, 0>>)

\* RunMode as u8 (MitMode = 0, PositionMode = 1).
RunModeByte(m) == IF m = "MitMode" THEN 0 ELSE 1

\* send_get_mode / send_set_mode: index 0x7005 little-endian in bytes 0..1.
SdoReadPack(id) == Pack("SdoRead", id, CAN_ID_DEBUG_UI, <<5, 112, 0, 0, 0, 0, 0, 0>>)
SdoWritePack(id, m) ==
    Pack("SdoWrite", id, CAN_ID_DEBUG_UI, <<5, 112, 0, 0, RunModeByte(m), 0, 0, 0>>)

\* A u32 is kept as its two 16-bit words <<high, low>>.
U32(n) == <<n \div 65536, n % 65536>>

\* timeout * 20 in u32 arithmetic: the product modulo 2^32 and whether it
\* overflowed.
Mul20(timeout) ==
    LET low == timeout[2] * 20
        high == timeout[1] * 20 + low \div 65536
    IN  [overflow |-> high >= 65536, value |-> <<high % 65536, low % 65536>>]

\* What `timeout * 20` does on overflow depends on the build: with overflow
\* checks it panics, without them it wraps.  The set of "panics" outcomes.
CanTimeoutAborts(timeout) == IF Mul20(timeout).overflow THEN {TRUE, FALSE} ELSE {FALSE}

\* read_uint16_param: ParaRead with the index little-endian in bytes 0..1
\* (read_can_timeouts reads index 0x200c).
ParaReadPack(id) == Pack("ParaRead", id, CAN_ID_DEBUG_UI, <<12, 32, 0, 0, 0, 0, 0, 0>>)

\* send_can_timeout: index 0x200c, type tag 4, (timeout * 20).clamp(0, 100000) as
\* little-endian u32; 100000 = 1 * 65536 + 34464.
CanTimeoutValue(timeout) ==
    LET prod == Mul20(timeout).value
    IN  IF prod[1] > 1 \/ (prod[1] = 1 /\ prod[2] > 34464) THEN <<1, 34464>> ELSE prod
to_le_bytes32(v) ==
    <<v[2] % 256, v[2] \div 256, v[1] % 256, v[1] \div 256>>
CanTimeoutPack(id, timeout) ==
    Pack("ParaWrite", id, CAN_ID_DEBUG_UI,
         <<12, 32, 4, 0>> \o to_le_bytes32(CanTimeoutValue(timeout)))

\* A send_motor_control that writes the velocity before the position.
MotorCtrlPackVelocityFirst(id, params) ==
    LET config == motor_configs[id]
    IN  Pack("MotorCtrl", id,
             float_to_uint(params.torque, config.t_min, config.t_max),
             to_be_bytes(float_to_uint(params.velocity, config.v_min, config.v_max))
             \o to_be_bytes(float_to_uint(params.position, config.p_min, config.p_max))
             \o to_be_bytes(float_to_uint(params.kp, config.kp_min, config.kp_max))
             \o to_be_bytes(float_to_uint(params.kd, config.kd_min, config.kd_max)))

\* send_motor_control: torque in ex_id.data, pos | vel | kp | kd big-endian.
MotorCtrlPack(id, params) ==
    LET config == motor_configs[id]
    IN  Pack("MotorCtrl", id,
             float_to_uint(params.torque, config.t_min, config.t_max),
             to_be_bytes(float_to_uint(params.position, config.p_min, config.p_max))
             \o to_be_bytes(float_to_uint(params.velocity, config.v_min, config.v_max))
             \o to_be_bytes(float_to_uint(params.kp, config.kp_min, config.kp_max))
             \o to_be_bytes(float_to_uint(params.kd, config.kd_min, config.kd_max)))

\* -------------------------------------------------------------------- state

VARIABLES
    \* Motors (the session)
    mode,               \* Motors.mode, the cached run mode
    session_feedback,   \* Motors.latest_feedback
    cfg_keys,           \* iteration order of motor_configs.keys()
    tx_log,             \* frames written by the session operation in progress
    call,               \* the session operation in progress (its loop position)
    \* MotorsSupervisor (shared between the control thread and the caller)
    target_params, running, paused, restart, latest_feedback, motors_to_zero,
    total_commands, failed_commands, min_update_rate, actual_update_rate,
    \* locks held across more than one step
    motors_lock,        \* Mutex<Motors>: "free", "worker" or "caller"
    motors_poisoned,    \* its holder panicked
    zero_lock,          \* Mutex<HashSet> motors_to_zero: "free" or "worker"
    zero_poisoned,
    tp_read_held,       \* the control thread holds target_params.read()
    rate_lock,          \* RwLock min_update_rate: "free" or "caller" (write)
    \* control thread
    wpc,                \* its position
    w_ids,              \* its local motor_ids of the zero batch
    \* application thread
    cpc,                \* "idle", or the method it is inside
    c_id,               \* the motor id argument of that method
    \* history
    stop_returned,      \* stop() has returned
    wrote_after_stop,   \* a frame was written after that
    fb_decoded,         \* ids whose control round trip returned decoded feedback
    first_frame,        \* for each motor with zero_on_init, which of MotorZero and
                        \* MotorCtrl the control thread wrote to it first ("none":
                        \* neither yet)
    last_call,          \* how the caller's last method ended: "ok" (it returned
                        \* () or Ok), "err", "panic", or "pending" inside it
    api_calls,          \* number of setpoint setter calls made
    pause_held,         \* the control thread has read paused = true, and neither
                        \* has toggle_pause cleared the flag since nor has the
                        \* thread read it as false
    reset_merged,       \* reset() was called while the restart flag was already
                        \* set, and the control thread has not taken the flag yet
    \* the serial port, byte by byte
    port_wire,          \* reply bytes the adapter has still to deliver
    port_rx,            \* bytes received by the port and not read yet
    rx,                 \* the send_commands call in progress and its rx_unpacks
    link_frames,        \* number of frames written to the port
    \* the frame codec on its own
    codec               \* the last codec function applied: its name, its argument
                        \* and its result

session == <<mode, session_feedback, cfg_keys, tx_log, call>>
shared == <<target_params, running, paused, restart, latest_feedback, motors_to_zero,
            total_commands, failed_commands, min_update_rate, actual_update_rate>>
locks == <<motors_lock, motors_poisoned, zero_lock, zero_poisoned, tp_read_held, rate_lock>>
worker == <<wpc, w_ids>>
caller == <<cpc, c_id, last_call>>
link == <<port_wire, port_rx, rx, link_frames>>
history == <<stop_returned, wrote_after_stop, fb_decoded, first_frame, api_calls>>
vars == <<session, shared, locks, worker, caller, history, pause_held, reset_merged, link, codec>>

NoCall == [op |-> "none", owner |-> "none", ids |-> <<>>, i |-> 0, phase |-> "none",
           j |-> 0, modes |-> <<>>, feedbacks |-> {}, params |-> <<>>,
           timeout |-> <<0, 0>>, res |-> "none"]

\* No send_commands call yet.
NoRx == [pc |-> "idle", ids |-> <<>>, first |-> 0, buffer |-> <<>>, res |-> "none",
         packs |-> <<>>]

\* Motors::new and MotorsSupervisor::new, up to thread::spawn.
InitProgram ==
    /\ mode = "UnsetMode"
    /\ session_feedback = <<>>
    /\ cfg_keys \in KeyOrders(Ids)
    /\ tx_log = <<>>
    /\ call = NoCall
    /\ target_params = [id \in Ids |-> DefaultParams]
    /\ running = TRUE
    /\ paused = FALSE
    /\ restart = FALSE
    /\ latest_feedback = <<>>
    /\ motors_to_zero = {id \in Ids : motor_configs[id].zero_on_init}
    /\ total_commands = [id \in Ids |-> 0]
    /\ failed_commands = [id \in Ids |-> 0]
    /\ min_update_rate \in Rates
    /\ actual_update_rate = 0
    /\ motors_lock = "free"
    /\ motors_poisoned = FALSE
    /\ zero_lock = "free"
    /\ zero_poisoned = FALSE
    /\ tp_read_held = FALSE
    /\ rate_lock = "free"
    /\ wpc = "spawned"
    /\ w_ids = <<>>
    /\ cpc = "idle"
    /\ c_id = 0
    /\ stop_returned = FALSE
    /\ wrote_after_stop = FALSE
    /\ fb_decoded = {}
    /\ first_frame = [id \in {k \in Ids : motor_configs[k].zero_on_init} |-> "none"]
    /\ last_call = "none"
    /\ api_calls = 0
    /\ pause_held = FALSE
    /\ reset_merged = FALSE
    /\ port_wire = <<>>
    /\ port_rx = <<>>
    /\ rx = NoRx
    /\ link_frames = 0

Init == InitProgram /\ codec = NoCodec

\* ------------------------------------------------------------ serial link

\* What one rx_unpacks(1) after a written frame can deliver:
\*   "ok"           a 17-byte MotorFeedback frame of the addressed motor, len = 8
\*   "timeout"      port.read fails (10 ms read timeout)
\*   "bad_preamble" 17 bytes that do not start with "AT"
\*   "unknown_id"   a MotorFeedback frame whose can_id is not in motor_configs
\*   "short"        a MotorFeedback frame with len = 4 (4 payload bytes in data)
ReplyKinds == {"ok", "timeout", "bad_preamble", "unknown_id", "short"}

\* rx_unpacks returns Err for these, Ok(pack) for the others.
ReadFails(r) == r \in {"timeout", "bad_preamble"}

\* Run modes a device reports in byte 4 of an SdoRead reply.
ReplyModes == {"MitMode", "PositionMode"}

\* tx_packs: the frame goes to the link.
tx_packs(pack) ==
    /\ tx_log' = Append(tx_log, pack)
    /\ wrote_after_stop' = (wrote_after_stop \/ stop_returned)
    /\ first_frame' = [id \in DOMAIN first_frame |->
                          IF /\ first_frame[id] = "none" /\ pack.id = id
                             /\ call.owner = "worker"
                             /\ pack.mode \in {"MotorZero", "MotorCtrl"}
                          THEN pack.mode ELSE first_frame[id]]

\* A session operation that has returned: its name, its argument and its result.
Returned(c, res) ==
    [NoCall EXCEPT !.op = "done", !.owner = c.owner, !.phase = c.op, !.ids = c.ids,
                   !.res = res]

\* A panic of the thread inside the session (an index out of bounds): the thread
\* unwinds, its guards are dropped and the mutexes it held are poisoned.
Panic ==
    /\ call' = NoCall
    /\ IF call.owner = "worker"
       THEN /\ wpc' = "panicked"
            /\ motors_lock' = "free"
            /\ motors_poisoned' = TRUE
            /\ zero_lock' = "free"
            /\ zero_poisoned' = (zero_poisoned \/ zero_lock = "worker")
            /\ tp_read_held' = FALSE
            /\ UNCHANGED <<rate_lock, cpc, last_call>>
       ELSE /\ cpc' = "panicked"
            /\ last_call' = "panic"
            /\ UNCHANGED <<wpc, locks>>

NoPanic == UNCHANGED <<wpc, locks, cpc, last_call>>

SessionFrame ==
    UNCHANGED <<session_feedback, cfg_keys, shared, c_id, stop_returned, w_ids, api_calls,
                pause_held, reset_merged, link, codec>>

\* ----------------------------------------------------- session operations

\* Entering send_resets / send_starts / send_can_timeout: the keys are collected.
BeginList(op, owner, timeout) ==
    [NoCall EXCEPT !.op = op, !.owner = owner, !.ids = cfg_keys, !.i = 1,
                   !.timeout = timeout]

\* One turn of a loop `for id in ids { self.send_command(..)?; }` whose reply is
\* not decoded: a read error returns it, anything else goes to the next id.
ListNext(c, r) ==
    IF ReadFails(r) THEN Returned(c, "err")
    ELSE IF c.i = Len(c.ids) THEN Returned(c, "ok")
    ELSE [c EXCEPT !.i = c.i + 1]

\* send_resets: one send_reset round trip.
SendResetsStep ==
    /\ call.op = "resets"
    /\ \E r \in ReplyKinds :
        /\ tx_packs(ResetPack(call.ids[call.i]))
        /\ call' = ListNext(call, r)
    /\ UNCHANGED <<mode, fb_decoded>>
    /\ NoPanic /\ SessionFrame

\* send_starts: one send_start round trip.
SendStartsStep ==
    /\ call.op = "starts"
    /\ \E r \in ReplyKinds :
        /\ tx_packs(StartPack(call.ids[call.i]))
        /\ call' = ListNext(call, r)
    /\ UNCHANGED <<mode, fb_decoded>>
    /\ NoPanic /\ SessionFrame

\* send_can_timeout: one ParaWrite round trip.
SendCanTimeoutStep ==
    /\ call.op = "can_timeout"
    /\ \E abort \in CanTimeoutAborts(call.timeout) :
        IF abort
        THEN /\ Panic
             /\ UNCHANGED <<tx_log, wrote_after_stop, first_frame>>
        ELSE /\ \E r \in ReplyKinds :
                /\ tx_packs(CanTimeoutPack(call.ids[call.i], call.timeout))
                /\ call' = ListNext(call, r)
             /\ NoPanic
    /\ UNCHANGED <<mode, fb_decoded>>
    /\ SessionFrame

\* read_can_timeouts: one read_uint16_param per id: the frame is written, then
\* one reply is read; a read error returns it, and data[4..6] of a 4-byte reply
\* is out of bounds.
ReadCanTimeoutsStep ==
    /\ call.op = "read_can_timeouts"
    /\ tx_packs(ParaReadPack(call.ids[call.i]))
    /\ \E r \in ReplyKinds :
        IF r = "short"
        THEN Panic
        ELSE /\ call' = ListNext(call, r)
             /\ NoPanic
    /\ UNCHANGED <<mode, fb_decoded>>
    /\ SessionFrame

\* A send_set_zeros that resets, zeroes and starts one motor after the other.
SetZerosPackPerMotor(ids, k) ==
    LET id == ids[((k - 1) \div 3) + 1]
        phase == (k - 1) % 3
    IN  IF phase = 0 THEN ResetPack(id)
        ELSE IF phase = 1 THEN ZeroPack(id)
        ELSE StartPack(id)

\* send_set_zeros: the k-th frame (k = 1..3 * Len(ids)) of the three loops
\* Reset, Zero, Start, each over ids in the order given.
SetZerosPack(ids, k) ==
    LET n == Len(ids)
        phase == (k - 1) \div n
        id == ids[((k - 1) % n) + 1]
    IN  IF phase = 0 THEN ResetPack(id)
        ELSE IF phase = 1 THEN ZeroPack(id)
        ELSE StartPack(id)

\* A send_set_zeros that looks up only the first id before it starts writing.
BeginSetZerosFirstOnly(owner, ids) ==
    LET c == [NoCall EXCEPT !.op = "set_zeros", !.owner = owner, !.ids = ids, !.i = 1]
    IN  IF Len(ids) = 0 THEN Returned(c, "ok")
        ELSE IF ids[1] \notin Ids THEN Returned(c, "invalid_input")
        ELSE c

\* Entering send_set_zeros(Some(ids)): any id without a config returns
\* InvalidInput before a frame is written.
BeginSetZeros(owner, ids) ==
    LET c == [NoCall EXCEPT !.op = "set_zeros", !.owner = owner, !.ids = ids, !.i = 1]
    IN  IF \E k \in 1..Len(ids) : ids[k] \notin Ids THEN Returned(c, "invalid_input")
        ELSE IF Len(ids) = 0 THEN Returned(c, "ok")
        ELSE c

\* send_set_zeros: one round trip (i counts the frames of the three loops).
SendSetZerosStep ==
    /\ call.op = "set_zeros"
    /\ \E r \in ReplyKinds :
        /\ tx_packs(SetZerosPack(call.ids, call.i))
        /\ call' = IF ReadFails(r) THEN Returned(call, "err")
                   ELSE IF call.i = 3 * Len(call.ids) THEN Returned(call, "ok")
                   ELSE [call EXCEPT !.i = call.i + 1]
    /\ UNCHANGED <<mode, fb_decoded>>
    /\ NoPanic /\ SessionFrame

\* send_set_mode(MitMode) once the cached mode m is decided (after the poll):
\* equal to the target returns at once, otherwise the cache is overwritten and
\* the SdoWrite loop starts (read_mode, c.modes, is alive until send_set_mode
\* returns).  Gives the session's position and the cached mode.
ModeDecided(c, m) ==
    IF m = "MitMode"
    THEN [call |-> [c EXCEPT !.phase = "ctrl", !.j = 0, !.modes = <<>>], mode |-> m]
    ELSE [call |-> [c EXCEPT !.phase = "set_mode", !.j = 1], mode |-> "MitMode"]

\* A send_motor_controls that polls the run mode before every entry, whatever
\* the cache holds.
ControlEntryAlwaysPoll(c, i, m) ==
    IF i > Len(c.ids) THEN [call |-> Returned(c, "ok"), mode |-> m]
    ELSE [call |-> [c EXCEPT !.i = i, !.phase = "get_mode", !.j = 1, !.modes = <<>>],
          mode |-> m]

\* send_motor_controls reaching the i-th entry of params_map: past the last one
\* it returns Ok; otherwise send_motor_control calls send_set_mode(MitMode),
\* which polls the run mode first when the cache is UnsetMode.
ControlEntry(c, i, m) ==
    IF i > Len(c.ids) THEN [call |-> Returned(c, "ok"), mode |-> m]
    ELSE IF m = "UnsetMode"
    THEN [call |-> [c EXCEPT !.i = i, !.phase = "get_mode", !.j = 1, !.modes = <<>>],
          mode |-> m]
    ELSE ModeDecided([c EXCEPT !.i = i], m)

\* Entering send_motor_controls(params_map): ids is the iteration order of
\* params_map.  An id without a config returns InvalidInput before any frame.
BeginControls(owner, ids, params_map, m) ==
    LET c == [NoCall EXCEPT !.op = "controls", !.owner = owner, !.ids = ids,
                            !.params = params_map]
    IN  IF \E k \in 1..Len(ids) : ids[k] \notin Ids
        THEN [call |-> Returned(c, "invalid_input"), mode |-> m]
        ELSE ControlEntry(c, 1, m)

\* send_set_mode after send_get_mode returned the map modes: an empty map is an
\* error; a map whose values all agree sets the cache; then the mode is decided.
AfterGetMode(c, modes, m) ==
    IF DOMAIN modes = {} THEN [call |-> Returned(c, "err"), mode |-> m]
    ELSE LET single_read_mode == modes[CHOOSE id \in DOMAIN modes : TRUE]
             read == IF \A id \in DOMAIN modes : modes[id] = single_read_mode
                     THEN single_read_mode ELSE m
         IN  ModeDecided([c EXCEPT !.modes = modes], read)

\* send_get_mode: one SdoRead round trip.  The reply's data[4] is the mode; a
\* read error skips the motor; data[4] of a 4-byte reply is out of bounds.
SendGetModeStep ==
    /\ call.op = "controls" /\ call.phase = "get_mode"
    /\ tx_packs(SdoReadPack(cfg_keys[call.j]))
    /\ \E r \in ReplyKinds :
        \/ /\ r = "short"
           /\ Panic
           /\ UNCHANGED mode
        \/ /\ r # "short"
           /\ \E rm \in ReplyModes :
                LET id == cfg_keys[call.j]
                    modes == IF ReadFails(r) THEN call.modes
                             ELSE (id :> rm) @@ call.modes
                    nxt == IF call.j = Len(cfg_keys)
                           THEN AfterGetMode(call, modes, mode)
                           ELSE [call |-> [call EXCEPT !.j = call.j + 1, !.modes = modes],
                                 mode |-> mode]
                IN  /\ call' = nxt.call
                    /\ mode' = nxt.mode
           /\ NoPanic
    /\ UNCHANGED fb_decoded
    /\ SessionFrame

\* send_set_mode: one SdoWrite round trip.  A read error skips the motor; a reply
\* is decoded by unpack_feedback, whose error (can_id without a config) returns
\* from send_set_mode and whose data[0..6] of a 4-byte reply is out of bounds.
\* call.feedbacks holds the keys of the local map feedbacks: the ids whose
\* SdoWrite was answered and decoded.  It is dropped when send_set_mode returns.
SendSetModeStep ==
    /\ call.op = "controls" /\ call.phase = "set_mode"
    /\ tx_packs(SdoWritePack(cfg_keys[call.j], "MitMode"))
    /\ \E r \in ReplyKinds :
        \/ /\ r = "short"
           /\ Panic
        \/ /\ r = "unknown_id"
           /\ call' = Returned(call, "err")
           /\ NoPanic
        \/ /\ r \notin {"short", "unknown_id"}
           /\ LET feedbacks == IF ReadFails(r) THEN call.feedbacks
                                ELSE call.feedbacks \cup {cfg_keys[call.j]}
              IN  call' = IF call.j = Len(cfg_keys)
                          THEN [call EXCEPT !.phase = "ctrl", !.j = 0, !.modes = <<>>,
                                            !.feedbacks = {}]
                          ELSE [call EXCEPT !.j = call.j + 1, !.feedbacks = feedbacks]
           /\ NoPanic
    /\ UNCHANGED <<mode, fb_decoded>>
    /\ SessionFrame

\* HashMap::from_iter(motor_ids.map(|id| (id, MotorControlParams::default())))
ZeroCommands(ids) == [id \in ids |-> DefaultParams]

\* send_motor_control after send_set_mode: the MotorCtrl round trip.  Its
\* feedback is returned to send_motor_controls, which collects it in a local map.
SendMotorControlStep ==
    /\ call.op = "controls" /\ call.phase = "ctrl"
    /\ LET id == call.ids[call.i]
       IN  /\ tx_packs(MotorCtrlPack(id, call.params[id]))
           /\ \E r \in ReplyKinds :
                \/ /\ r = "short"
                   /\ Panic
                   /\ UNCHANGED <<mode, fb_decoded>>
                \/ /\ r \in {"timeout", "bad_preamble", "unknown_id"}
                   /\ call' = Returned(call, "err")
                   /\ NoPanic
                   /\ UNCHANGED <<mode, fb_decoded>>
                \/ /\ r = "ok"
                   /\ call' = ControlEntry(call, call.i + 1, mode).call
                   /\ mode' = ControlEntry(call, call.i + 1, mode).mode
                   /\ fb_decoded' = fb_decoded \cup {id}
                   /\ NoPanic
    /\ SessionFrame

\* ---------------------------------------------------------- control thread
\* The closure of start_control_thread.  It locks the session once, before its
\* first frame, and the guard lives until the closure ends.

WorkerReturned(at) == wpc = at /\ call.op = "done" /\ call.owner = "worker"

WorkerFrame == UNCHANGED <<session_feedback, cfg_keys, caller, history, pause_held, reset_merged, link, codec>>

\* entry.and_modify(|e| *e += 1) for each id of ids: ids without an entry are skipped.
Bump(counter, ids) ==
    [id \in DOMAIN counter |-> IF id \in ids THEN counter[id] + 1 ELSE counter[id]]

\* motors.lock().unwrap(), then send_resets is entered.
WorkerStart ==
    /\ wpc = "spawned"
    /\ motors_lock = "free" /\ ~motors_poisoned
    /\ motors_lock' = "worker"
    /\ call' = BeginList("resets", "worker", U32(0))
    /\ tx_log' = <<>>
    /\ wpc' = "start_resets"
    /\ UNCHANGED <<mode, shared, motors_poisoned, zero_lock, zero_poisoned, tp_read_held,
                   rate_lock, w_ids>>
    /\ WorkerFrame

\* let _ = motors.send_resets(); then send_starts is entered.
WorkerStartStarts ==
    /\ WorkerReturned("start_resets")
    /\ call' = BeginList("starts", "worker", U32(0))
    /\ tx_log' = <<>>
    /\ wpc' = "start_starts"
    /\ UNCHANGED <<mode, shared, locks, w_ids>>
    /\ WorkerFrame

\* can_timeout = (1000.0 / *min_update_rate.read().unwrap()) as u32
can_timeout_of(rate) == U32(1000 \div rate)

\* let _ = motors.send_starts(); the min_update_rate read lock is taken for the
\* computation of the timeout, then send_can_timeout is entered.
WorkerStartTimeout ==
    /\ WorkerReturned("start_starts")
    /\ rate_lock = "free"
    /\ call' = BeginList("can_timeout", "worker", can_timeout_of(min_update_rate))
    /\ tx_log' = <<>>
    /\ wpc' = "start_timeout"
    /\ UNCHANGED <<mode, shared, locks, w_ids>>
    /\ WorkerFrame

\* let _ = motors.send_can_timeout(..); the loop is entered.
WorkerEnterLoop ==
    /\ WorkerReturned("start_timeout")
    /\ call' = NoCall
    /\ wpc' = "loop_top"
    /\ UNCHANGED <<mode, tx_log, shared, locks, w_ids>>
    /\ WorkerFrame

\* if !*running.read().unwrap() { break; }  After the loop the zero commands go
\* to the keys of the session's feedback cache.
\* (MaxCommands bounds the iterations entered while running is true.)
WorkerCheckRunning ==
    /\ wpc = "loop_top"
    /\ IF running
       THEN /\ \A id \in DOMAIN total_commands : total_commands[id] < MaxCommands
            /\ wpc' = "check_paused"
            /\ UNCHANGED <<call, mode, tx_log>>
       ELSE \E ids \in KeyOrders(DOMAIN session_feedback) :
            /\ call' = BeginControls("worker", ids, ZeroCommands(Range(ids)), mode).call
            /\ mode' = BeginControls("worker", ids, ZeroCommands(Range(ids)), mode).mode
            /\ tx_log' = <<>>
            /\ wpc' = "shut_controls"
    /\ UNCHANGED <<shared, locks, w_ids>>
    /\ WorkerFrame

\* A pause check that sleeps and then goes on with the iteration.
WorkerCheckPausedNoContinue ==
    /\ wpc = "check_paused"
    /\ wpc' = "check_restart"
    /\ pause_held' = paused
    /\ UNCHANGED <<mode, tx_log, call, shared, locks, w_ids>>
    /\ UNCHANGED <<session_feedback, cfg_keys, caller, history, reset_merged, link, codec>>

\* if *paused.read().unwrap() { sleep(10 ms); continue; }
WorkerCheckPaused ==
    /\ wpc = "check_paused"
    /\ IF paused
       THEN wpc' = "pause_sleep"
       ELSE wpc' = "check_restart"
    /\ pause_held' = paused
    /\ UNCHANGED <<mode, tx_log, call, shared, locks, w_ids>>
    /\ UNCHANGED <<session_feedback, cfg_keys, caller, history, reset_merged, link, codec>>

\* The 10 ms sleep of a paused iteration ends.
WorkerPauseSleep ==
    /\ wpc = "pause_sleep"
    /\ wpc' = "loop_top"
    /\ UNCHANGED <<mode, tx_log, call, shared, locks, w_ids>>
    /\ WorkerFrame

\* A restart check that leaves the flag set.
WorkerCheckRestartKeepFlag ==
    /\ wpc = "check_restart"
    /\ IF restart
       THEN /\ call' = BeginList("resets", "worker", U32(0))
            /\ tx_log' = <<>>
            /\ wpc' = "restart_resets"
       ELSE /\ wpc' = "snapshot"
            /\ UNCHANGED <<call, tx_log>>
    /\ reset_merged' = FALSE
    /\ UNCHANGED <<mode, shared, locks, w_ids>>
    /\ UNCHANGED <<session_feedback, cfg_keys, caller, history, pause_held, link, codec>>

\* if *restart { *restart = false; send_resets; send_starts }
WorkerCheckRestart ==
    /\ wpc = "check_restart"
    /\ IF restart
       THEN /\ restart' = FALSE
            /\ call' = BeginList("resets", "worker", U32(0))
            /\ tx_log' = <<>>
            /\ wpc' = "restart_resets"
       ELSE /\ wpc' = "snapshot"
            /\ UNCHANGED <<restart, call, tx_log>>
    /\ reset_merged' = FALSE
    /\ UNCHANGED <<mode, target_params, running, paused, latest_feedback, motors_to_zero,
                   total_commands, failed_commands, min_update_rate, actual_update_rate,
                   locks, w_ids>>
    /\ UNCHANGED <<session_feedback, cfg_keys, caller, history, pause_held, link, codec>>

WorkerRestartStarts ==
    /\ WorkerReturned("restart_resets")
    /\ call' = BeginList("starts", "worker", U32(0))
    /\ tx_log' = <<>>
    /\ wpc' = "restart_starts"
    /\ UNCHANGED <<mode, shared, locks, w_ids>>
    /\ WorkerFrame

WorkerRestartDone ==
    /\ WorkerReturned("restart_starts")
    /\ call' = NoCall
    /\ wpc' = "snapshot"
    /\ UNCHANGED <<mode, tx_log, shared, locks, w_ids>>
    /\ WorkerFrame

\* *latest_feedback = motors.get_latest_feedback().clone()
WorkerSnapshot ==
    /\ wpc = "snapshot"
    /\ latest_feedback' = session_feedback
    /\ wpc' = "zero_lock"
    /\ UNCHANGED <<mode, tx_log, call, target_params, running, paused, restart,
                   motors_to_zero, total_commands, failed_commands, min_update_rate,
                   actual_update_rate, locks, w_ids>>
    /\ WorkerFrame

\* A zero batch that copies the pending ids and drops the motors_to_zero guard
\* before its round trips.
WorkerZeroLockCopyOnly ==
    /\ wpc = "zero_lock"
    /\ zero_lock = "free" /\ ~zero_poisoned
    /\ IF motors_to_zero = {}
       THEN /\ wpc' = "ctrl_lock"
            /\ UNCHANGED <<w_ids, call, tx_log>>
       ELSE \E ids \in KeyOrders(motors_to_zero) :
            /\ w_ids' = ids
            /\ call' = BeginSetZeros("worker", ids)
            /\ tx_log' = <<>>
            /\ wpc' = "zero_set_zeros"
    /\ UNCHANGED <<mode, shared, locks>>
    /\ WorkerFrame

\* The zero batch: motors_to_zero.lock() is held for the whole block.  With an
\* empty set nothing is sent or counted and the guard is dropped at once;
\* otherwise send_set_zeros(Some(&motor_ids)) is entered.
WorkerZeroLock ==
    /\ wpc = "zero_lock"
    /\ zero_lock = "free" /\ ~zero_poisoned
    /\ IF motors_to_zero = {}
       THEN /\ wpc' = "ctrl_lock"
            /\ UNCHANGED <<zero_lock, w_ids, call, tx_log>>
       ELSE \E ids \in KeyOrders(motors_to_zero) :
            /\ zero_lock' = "worker"
            /\ w_ids' = ids
            /\ call' = BeginSetZeros("worker", ids)
            /\ tx_log' = <<>>
            /\ wpc' = "zero_set_zeros"
    /\ UNCHANGED <<mode, shared, motors_lock, motors_poisoned, zero_poisoned,
                   tp_read_held, rate_lock>>
    /\ WorkerFrame

\* An error of send_set_zeros counts one failure for each id; the set is
\* cleared; send_motor_controls(&torque_commands) is entered.
WorkerZeroControls ==
    /\ WorkerReturned("zero_set_zeros")
    /\ failed_commands' = IF call.res # "ok"
                          THEN Bump(failed_commands, Range(w_ids))
                          ELSE failed_commands
    /\ motors_to_zero' = {}
    /\ \E ids \in KeyOrders(Range(w_ids)) :
        /\ call' = BeginControls("worker", ids, ZeroCommands(Range(ids)), mode).call
        /\ mode' = BeginControls("worker", ids, ZeroCommands(Range(ids)), mode).mode
    /\ tx_log' = <<>>
    /\ wpc' = "zero_controls"
    /\ UNCHANGED <<target_params, running, paused, restart, latest_feedback,
                   total_commands, min_update_rate, actual_update_rate, locks, w_ids>>
    /\ WorkerFrame

\* An error of that send_motor_controls counts one more failure for each id.
WorkerZeroFailed ==
    /\ WorkerReturned("zero_controls")
    /\ failed_commands' = IF call.res # "ok"
                          THEN Bump(failed_commands, Range(w_ids))
                          ELSE failed_commands
    /\ call' = NoCall
    /\ wpc' = "zero_total"
    /\ UNCHANGED <<mode, tx_log, target_params, running, paused, restart, latest_feedback,
                   motors_to_zero, total_commands, min_update_rate, actual_update_rate,
                   locks, w_ids>>
    /\ WorkerFrame

\* The zero batch counts one command for each id; the block ends and the
\* motors_to_zero guard is dropped.
WorkerZeroTotal ==
    /\ wpc = "zero_total"
    /\ total_commands' = Bump(total_commands, Range(w_ids))
    /\ zero_lock' = "free"
    /\ w_ids' = <<>>
    /\ wpc' = "ctrl_lock"
    /\ UNCHANGED <<mode, tx_log, call, target_params, running, paused, restart,
                   latest_feedback, motors_to_zero, failed_commands, min_update_rate,
                   actual_update_rate, motors_lock, motors_poisoned, zero_poisoned,
                   tp_read_held, rate_lock>>
    /\ WorkerFrame

\* The control batch: target_params.read() is held for the whole block and
\* send_motor_controls(&target_params) is entered.
WorkerCtrlLock ==
    /\ wpc = "ctrl_lock"
    /\ tp_read_held' = TRUE
    /\ \E ids \in KeyOrders(DOMAIN target_params) :
        /\ call' = BeginControls("worker", ids, target_params, mode).call
        /\ mode' = BeginControls("worker", ids, target_params, mode).mode
    /\ tx_log' = <<>>
    /\ wpc' = "ctrl_controls"
    /\ UNCHANGED <<shared, motors_lock, motors_poisoned, zero_lock, zero_poisoned,
                   rate_lock, w_ids>>
    /\ WorkerFrame

\* An error of send_motor_controls counts one failure for each key of target_params.
WorkerCtrlFailed ==
    /\ WorkerReturned("ctrl_controls")
    /\ failed_commands' = IF call.res # "ok"
                          THEN Bump(failed_commands, DOMAIN target_params)
                          ELSE failed_commands
    /\ call' = NoCall
    /\ wpc' = "ctrl_total"
    /\ UNCHANGED <<mode, tx_log, target_params, running, paused, restart, latest_feedback,
                   motors_to_zero, total_commands, min_update_rate, actual_update_rate,
                   locks, w_ids>>
    /\ WorkerFrame

\* The control batch counts one command for each key; the read guard is dropped.
WorkerCtrlTotal ==
    /\ wpc = "ctrl_total"
    /\ total_commands' = Bump(total_commands, DOMAIN target_params)
    /\ tp_read_held' = FALSE
    /\ wpc' = "rate"
    /\ UNCHANGED <<mode, tx_log, call, target_params, running, paused, restart,
                   latest_feedback, motors_to_zero, failed_commands, min_update_rate,
                   actual_update_rate, motors_lock, motors_poisoned, zero_lock,
                   zero_poisoned, rate_lock, w_ids>>
    /\ WorkerFrame

\* *actual_update_rate.write().unwrap() = current_rate (a measured, non-zero rate,
\* written here as 1), then the sleep that keeps the target rate.
WorkerRate ==
    /\ wpc = "rate"
    /\ actual_update_rate' = 1
    /\ wpc' = "sleep"
    /\ UNCHANGED <<mode, tx_log, call, target_params, running, paused, restart,
                   latest_feedback, motors_to_zero, total_commands, failed_commands,
                   min_update_rate, locks, w_ids>>
    /\ WorkerFrame

\* thread::sleep ends; next iteration.
WorkerSleep ==
    /\ wpc = "sleep"
    /\ wpc' = "loop_top"
    /\ UNCHANGED <<mode, tx_log, call, shared, locks, w_ids>>
    /\ WorkerFrame

\* After the loop: let _ = send_motor_controls(&zero_torque_sets); then send_resets.
WorkerShutResets ==
    /\ WorkerReturned("shut_controls")
    /\ call' = BeginList("resets", "worker", U32(0))
    /\ tx_log' = <<>>
    /\ wpc' = "shut_resets"
    /\ UNCHANGED <<mode, shared, locks, w_ids>>
    /\ WorkerFrame

\* let _ = motors.send_resets(); the closure ends and the session guard is dropped.
WorkerExit ==
    /\ WorkerReturned("shut_resets")
    /\ call' = NoCall
    /\ motors_lock' = "free"
    /\ wpc' = "done"
    /\ UNCHANGED <<mode, tx_log, shared, motors_poisoned, zero_lock, zero_poisoned,
                   tp_read_held, rate_lock, w_ids>>
    /\ WorkerFrame

Worker ==
    \/ WorkerStart \/ WorkerStartStarts \/ WorkerStartTimeout \/ WorkerEnterLoop
    \/ WorkerCheckRunning \/ WorkerCheckPaused \/ WorkerPauseSleep
    \/ WorkerCheckRestart \/ WorkerRestartStarts \/ WorkerRestartDone
    \/ WorkerSnapshot
    \/ WorkerZeroLock \/ WorkerZeroControls \/ WorkerZeroFailed \/ WorkerZeroTotal
    \/ WorkerCtrlLock \/ WorkerCtrlFailed \/ WorkerCtrlTotal
    \/ WorkerRate \/ WorkerSleep
    \/ WorkerShutResets \/ WorkerExit

Session ==
    \/ SendResetsStep \/ SendStartsStep \/ SendCanTimeoutStep \/ SendSetZerosStep
    \/ SendGetModeStep \/ SendSetModeStep \/ SendMotorControlStep

\* ------------------------------------------------------ application thread
\* The public methods of MotorsSupervisor, called one at a time by one thread.

CallerIdle == cpc = "idle"

\* The setters take target_params.write(), which waits while the control thread
\* holds its read guard.
CanWriteTargets == ~tp_read_held

CallerFrame == UNCHANGED <<session, worker, locks, history, pause_held, reset_merged, link, codec>>

\* set_params: target_params.insert(motor_id, params); returns ().
set_params(tp, id, params) == (id :> params) @@ tp

SetParams(id, params) ==
    /\ CallerIdle /\ CanWriteTargets
    /\ api_calls < MaxCalls
    /\ api_calls' = api_calls + 1
    /\ target_params' = set_params(target_params, id, params)
    /\ last_call' = "ok"
    /\ UNCHANGED <<running, paused, restart, latest_feedback, motors_to_zero,
                   total_commands, failed_commands, min_update_rate, actual_update_rate,
                   cpc, c_id>>
    /\ UNCHANGED <<session, worker, locks, stop_returned, wrote_after_stop, fb_decoded,
                   first_frame, pause_held, reset_merged, link, codec>>

\* f32::max(0.0)
max0(x) == IF x < 0 THEN 0 ELSE x

\* The value a field setter stores.
Stored(field, value) == IF field \in {"kp", "kd"} THEN max0(value) ELSE value

\* set_position / set_velocity / set_kp / set_kd / set_torque: get_mut(&motor_id),
\* store the value (kp and kd through max(0.0)), or NotFound.
SetField(field, id, value) ==
    /\ CallerIdle /\ CanWriteTargets
    /\ api_calls < MaxCalls
    /\ api_calls' = api_calls + 1
    /\ IF id \in DOMAIN target_params
       THEN /\ target_params' = [target_params EXCEPT ![id][field] = Stored(field, value)]
            /\ last_call' = "ok"
       ELSE /\ last_call' = "err"
            /\ UNCHANGED target_params
    /\ UNCHANGED <<running, paused, restart, latest_feedback, motors_to_zero,
                   total_commands, failed_commands, min_update_rate, actual_update_rate,
                   cpc, c_id>>
    /\ UNCHANGED <<session, worker, locks, stop_returned, wrote_after_stop, fb_decoded,
                   first_frame, pause_held, reset_merged, link, codec>>

SetPosition(id, v) == SetField("position", id, v)
SetVelocity(id, v) == SetField("velocity", id, v)
SetKp(id, v) == SetField("kp", id, v)
SetKd(id, v) == SetField("kd", id, v)
SetTorque(id, v) == SetField("torque", id, v)

\* add_motor_to_zero, up to motors_to_zero.lock(): set_torque, set_position and
\* set_velocity with 0.0, the first NotFound returning the error.  (The three
\* write guards are taken one after the other; they are one step here.)
AddMotorToZero(id) ==
    /\ CallerIdle /\ CanWriteTargets
    /\ IF id \in DOMAIN target_params
       THEN /\ target_params' = [target_params EXCEPT ![id].torque = 0,
                                                      ![id].position = 0,
                                                      ![id].velocity = 0]
            /\ cpc' = "zero_wait"
            /\ c_id' = id
            /\ last_call' = "pending"
       ELSE /\ last_call' = "err"
            /\ UNCHANGED <<target_params, cpc, c_id>>
    /\ UNCHANGED <<running, paused, restart, latest_feedback, motors_to_zero,
                   total_commands, failed_commands, min_update_rate, actual_update_rate>>
    /\ CallerFrame

\* add_motor_to_zero, from motors_to_zero.lock().unwrap(): insert and return Ok.
\* The lock waits for the control thread's zero batch; a poisoned lock panics.
AddMotorToZeroInsert ==
    /\ cpc = "zero_wait"
    /\ zero_lock = "free"
    /\ IF zero_poisoned
       THEN /\ cpc' = "panicked"
            /\ last_call' = "panic"
            /\ UNCHANGED motors_to_zero
       ELSE /\ motors_to_zero' = motors_to_zero \cup {c_id}
            /\ cpc' = "idle"
            /\ last_call' = "ok"
    /\ c_id' = 0
    /\ UNCHANGED <<target_params, running, paused, restart, latest_feedback,
                   total_commands, failed_commands, min_update_rate, actual_update_rate>>
    /\ CallerFrame

\* toggle_pause
TogglePause ==
    /\ CallerIdle
    /\ paused' = ~paused
    /\ pause_held' = (pause_held /\ ~paused)
    /\ last_call' = "ok"
    /\ UNCHANGED <<target_params, running, restart, latest_feedback, motors_to_zero,
                   total_commands, failed_commands, min_update_rate, actual_update_rate,
                   cpc, c_id>>
    /\ UNCHANGED <<session, worker, locks, history, reset_merged, link, codec>>

\* reset: *restart.lock().unwrap() = true.  The control thread keeps the restart
\* guard while it sends the resets and starts of a restart.
Reset ==
    /\ CallerIdle
    /\ wpc \notin {"restart_resets", "restart_starts"}
    /\ restart' = TRUE
    /\ reset_merged' = (reset_merged \/ restart)
    /\ last_call' = "ok"
    /\ UNCHANGED <<target_params, running, paused, latest_feedback, motors_to_zero,
                   total_commands, failed_commands, min_update_rate, actual_update_rate,
                   cpc, c_id>>
    /\ UNCHANGED <<session, worker, locks, history, pause_held, link, codec>>

\* reset_command_counters: both write guards, every count to 0.
ResetCommandCounters ==
    /\ CallerIdle
    /\ total_commands' = [id \in DOMAIN total_commands |-> 0]
    /\ failed_commands' = [id \in DOMAIN failed_commands |-> 0]
    /\ last_call' = "ok"
    /\ UNCHANGED <<target_params, running, paused, restart, latest_feedback,
                   motors_to_zero, min_update_rate, actual_update_rate, cpc, c_id>>
    /\ CallerFrame

\* stop, first block: *running = false; then the 200 ms sleep begins.
Stop ==
    /\ CallerIdle
    /\ running' = FALSE
    /\ cpc' = "stop_sleep"
    /\ last_call' = "pending"
    /\ UNCHANGED <<target_params, paused, restart, latest_feedback, motors_to_zero,
                   total_commands, failed_commands, min_update_rate, actual_update_rate,
                   c_id>>
    /\ CallerFrame

\* stop: thread::sleep(200 ms) ends and stop returns.  Nothing ties the end of
\* the sleep to the progress of the control thread.
StopReturn ==
    /\ cpc = "stop_sleep"
    /\ cpc' = "idle"
    /\ last_call' = "ok"
    /\ stop_returned' = TRUE
    /\ UNCHANGED <<session, shared, worker, locks, c_id, wrote_after_stop, fb_decoded, first_frame,
                   api_calls, pause_held, reset_merged, link, codec>>

\* set_min_update_rate, up to motors.lock(): the write guard of min_update_rate
\* is taken and kept, the rate stored.
SetMinUpdateRate(rate) ==
    /\ CallerIdle
    /\ rate_lock = "free"
    /\ rate_lock' = "caller"
    /\ min_update_rate' = rate
    /\ cpc' = "smur_wait"
    /\ last_call' = "pending"
    /\ UNCHANGED <<target_params, running, paused, restart, latest_feedback,
                   motors_to_zero, total_commands, failed_commands, actual_update_rate,
                   motors_lock, motors_poisoned, zero_lock, zero_poisoned, tp_read_held,
                   c_id>>
    /\ UNCHANGED <<session, worker, history, pause_held, reset_merged, link, codec>>

\* set_min_update_rate: self.motors.lock().unwrap() succeeds once the mutex is
\* free (a poisoned mutex panics); send_can_timeout is entered.
SetMinUpdateRateLock ==
    /\ cpc = "smur_wait"
    /\ motors_lock = "free"
    /\ IF motors_poisoned
       THEN /\ cpc' = "panicked"
            /\ last_call' = "panic"
            /\ rate_lock' = "free"
            /\ UNCHANGED <<motors_lock, call, tx_log>>
       ELSE /\ motors_lock' = "caller"
            /\ call' = BeginList("can_timeout", "caller", can_timeout_of(min_update_rate))
            /\ tx_log' = <<>>
            /\ cpc' = "smur_io"
            /\ UNCHANGED <<last_call, rate_lock>>
    /\ UNCHANGED <<mode, session_feedback, cfg_keys, shared, worker, motors_poisoned,
                   zero_lock, zero_poisoned, tp_read_held, c_id, history, pause_held, reset_merged, link, codec>>

\* set_min_update_rate: let _ = motors.send_can_timeout(..); both guards dropped.
SetMinUpdateRateReturn ==
    /\ cpc = "smur_io"
    /\ call.op = "done" /\ call.owner = "caller"
    /\ call' = NoCall
    /\ motors_lock' = "free"
    /\ rate_lock' = "free"
    /\ cpc' = "idle"
    /\ last_call' = "ok"
    /\ UNCHANGED <<mode, session_feedback, cfg_keys, tx_log, shared, worker,
                   motors_poisoned, zero_lock, zero_poisoned, tp_read_held, c_id, history, pause_held, reset_merged, link, codec>>

\* --------------------------------------------- the session used directly
\* Motors is public: an application may own a session without a supervisor and
\* call its operations itself (no control thread exists then).

DirectIdle ==
    /\ cpc = "idle" /\ wpc = "spawned" /\ motors_lock = "free"
    /\ call.op \in {"none", "done"}

DirectFrame ==
    UNCHANGED <<session_feedback, cfg_keys, shared, worker, locks, caller, history, pause_held, reset_merged, link, codec>>

\* Id lists and params maps passed by the application.
IdLists == UNION {[1..n -> AllIds] : n \in 0..MaxList}

\* MotorControlParams values the application passes to send_motor_controls: the
\* default and one with every field set.
DirectParams ==
    {DefaultParams,
     [position |-> 1, velocity |-> 1, kp |-> 1, kd |-> 1, torque |-> 1]}

\* motors.send_set_zeros(Some(&ids))
MotorsSendSetZeros(ids) ==
    /\ DirectIdle
    /\ call' = BeginSetZeros("direct", ids)
    /\ tx_log' = <<>>
    /\ UNCHANGED mode
    /\ DirectFrame

\* motors.send_motor_controls(&params_map), every entry holding params.
MotorsSendMotorControls(keys, params) ==
    /\ DirectIdle
    /\ \E ids \in KeyOrders(keys) :
        /\ call' = BeginControls("direct", ids, [id \in keys |-> params], mode).call
        /\ mode' = BeginControls("direct", ids, [id \in keys |-> params], mode).mode
    /\ tx_log' = <<>>
    /\ DirectFrame

\* motors.send_resets()
MotorsSendResets ==
    /\ DirectIdle
    /\ call' = BeginList("resets", "direct", U32(0))
    /\ tx_log' = <<>>
    /\ UNCHANGED mode
    /\ DirectFrame

\* motors.send_starts()
MotorsSendStarts ==
    /\ DirectIdle
    /\ call' = BeginList("starts", "direct", U32(0))
    /\ tx_log' = <<>>
    /\ UNCHANGED mode
    /\ DirectFrame

\* Timeouts (ms) the application passes: 100, 5000 and 5001 (around the clamp),
\* 214748364 and 214748365 (the largest whose product by 20 fits a u32 and the
\* next one) and u32::MAX.
Timeouts ==
    {<<0, 100>>, <<0, 5000>>, <<0, 5001>>, <<3276, 52428>>, <<3276, 52429>>,
     <<65535, 65535>>}

\* motors.read_can_timeouts()
MotorsReadCanTimeouts ==
    /\ DirectIdle
    /\ call' = BeginList("read_can_timeouts", "direct", U32(0))
    /\ tx_log' = <<>>
    /\ UNCHANGED mode
    /\ DirectFrame

\* motors.send_can_timeout(timeout)
MotorsSendCanTimeout(timeout) ==
    /\ DirectIdle
    /\ call' = BeginList("can_timeout", "direct", timeout)
    /\ tx_log' = <<>>
    /\ UNCHANGED mode
    /\ DirectFrame

\* ----------------------------------------------------------- specifications

Lifecycle ==
    \/ TogglePause \/ Reset
    \/ Stop \/ StopReturn
    \/ \E rate \in Rates : SetMinUpdateRate(rate)
    \/ SetMinUpdateRateLock \/ SetMinUpdateRateReturn
    \/ \E id \in Ids : AddMotorToZero(id)
    \/ AddMotorToZeroInsert

\* The supervisor: control thread, session and the lifecycle methods.
Next == Worker \/ Session \/ Lifecycle

Spec == Init /\ [][Next]_vars

\* The supervisor of an application that only zeroes motors and reads and resets
\* the command counters: the control thread never pauses, restarts or stops.
NextCounters ==
    \/ WorkerStart \/ WorkerStartStarts \/ WorkerStartTimeout \/ WorkerEnterLoop
    \/ WorkerCheckRunning \/ WorkerCheckPaused \/ WorkerCheckRestart
    \/ WorkerSnapshot
    \/ WorkerZeroLock \/ WorkerZeroControls \/ WorkerZeroFailed \/ WorkerZeroTotal
    \/ WorkerCtrlLock \/ WorkerCtrlFailed \/ WorkerCtrlTotal
    \/ WorkerRate \/ WorkerSleep
    \/ Session
    \/ ResetCommandCounters
    \/ \E id \in Ids : AddMotorToZero(id)
    \/ AddMotorToZeroInsert

SpecCounters == Init /\ [][NextCounters]_vars

\* The setpoint interface: the setters and add_motor_to_zero, with every id and
\* value, before the control thread is scheduled.
NextApi ==
    \/ \E id \in AllIds, params \in ParamChoices : SetParams(id, params)
    \/ \E id \in AllIds, v \in Vals : SetPosition(id, v)
    \/ \E id \in AllIds, v \in Vals : SetVelocity(id, v)
    \/ \E id \in AllIds, v \in Vals : SetKp(id, v)
    \/ \E id \in AllIds, v \in Vals : SetKd(id, v)
    \/ \E id \in AllIds, v \in Vals : SetTorque(id, v)
    \/ \E id \in AllIds : AddMotorToZero(id)
    \/ AddMotorToZeroInsert

SpecApi == Init /\ [][NextApi]_vars

\* The supervisor of an application that pauses, changes the rate and stops, with
\* the scheduling the threads get: a thread that can take a step takes one in
\* the end (the control thread, a serial round trip in progress, a caller inside
\* set_min_update_rate).
NextStop ==
    \/ WorkerStart \/ WorkerStartStarts \/ WorkerStartTimeout \/ WorkerEnterLoop
    \/ WorkerCheckRunning \/ WorkerCheckPaused \/ WorkerPauseSleep
    \/ WorkerCheckRestart
    \/ WorkerSnapshot
    \/ WorkerZeroLock \/ WorkerZeroControls \/ WorkerZeroFailed \/ WorkerZeroTotal
    \/ WorkerCtrlLock \/ WorkerCtrlFailed \/ WorkerCtrlTotal
    \/ WorkerRate \/ WorkerSleep
    \/ WorkerShutResets \/ WorkerExit
    \/ Session
    \/ TogglePause
    \/ Stop \/ StopReturn
    \/ \E rate \in Rates : SetMinUpdateRate(rate)
    \/ SetMinUpdateRateLock \/ SetMinUpdateRateReturn

SpecStop ==
    /\ Init /\ [][NextStop]_vars
    /\ WF_vars(Worker)
    /\ WF_vars(Session)
    /\ WF_vars(SetMinUpdateRateLock \/ SetMinUpdateRateReturn)

\* The session used directly.
NextSession ==
    \/ \E ids \in IdLists : MotorsSendSetZeros(ids)
    \/ \E keys \in SUBSET AllIds, params \in DirectParams :
            MotorsSendMotorControls(keys, params)
    \/ MotorsSendResets \/ MotorsSendStarts
    \/ \E timeout \in Timeouts : MotorsSendCanTimeout(timeout)
    \/ MotorsReadCanTimeouts \/ ReadCanTimeoutsStep
    \/ Session

\* Motors::new alone: no supervisor is built on the session, so its fields keep
\* their construction values throughout and one rate stands for them.
InitSession == Init /\ min_update_rate = 10

SpecSession == InitSession /\ [][NextSession]_vars

\* ------------------------------------------------- the port, byte by byte
\* send_commands and rx_unpacks on the bytes of the serial port.  The adapter
\* answers every frame once, in order; its reply to the frame for motor id is
\* a MotorFeedback frame from that motor whose first data byte carries the
\* number of the frame it answers.

ReplyPack(id, serial) ==
    Pack("MotorFeedback", CAN_ID_DEBUG_UI, id, <<serial, 0, 0, 0, 0, 0, 0, 0>>)

RECURSIVE Replies(_, _)
Replies(ids, serial) ==
    IF ids = <<>> THEN <<>>
    ELSE tx_bytes(ReplyPack(Head(ids), serial)) \o Replies(Tail(ids), serial + 1)

LinkFrame ==
    UNCHANGED <<session, shared, locks, worker, caller, history, pause_held, reset_merged, codec>>

\* send_commands(packs) up to rx_unpacks (send_command is the call with one
\* pack): tx_packs writes the frames, one for each id of ids, and the adapter
\* queues its replies; rx_unpacks starts with an empty buffer.
SendCommands(ids) ==
    /\ rx.pc \in {"idle", "done"}
    /\ link_frames + Len(ids) <= MaxFrames
    /\ port_wire' = port_wire \o Replies(ids, link_frames + 1)
    /\ link_frames' = link_frames + Len(ids)
    /\ rx' = [NoRx EXCEPT !.pc = "reading", !.ids = ids, !.first = link_frames + 1]
    /\ UNCHANGED port_rx
    /\ LinkFrame

\* Some more reply bytes arrive at the port.
AdapterDelivers ==
    /\ \E k \in 1..Len(port_wire) :
        /\ port_rx' = port_rx \o SubSeq(port_wire, 1, k)
        /\ port_wire' = SubSeq(port_wire, k + 1, Len(port_wire))
    /\ UNCHANGED <<rx, link_frames>>
    /\ LinkFrame

\* port.read(&mut chunk) with bytes waiting: all of them (at most 1024) are
\* taken into the buffer; with count * 17 bytes or more the loop ends and the
\* chunks are decoded.
PortRead ==
    /\ rx.pc = "reading"
    /\ port_rx # <<>>
    /\ LET bytes_read == IF Len(port_rx) < 1024 THEN Len(port_rx) ELSE 1024
           buffer == rx.buffer \o SubSeq(port_rx, 1, bytes_read)
           out == rx_unpacks(buffer, Len(rx.ids))
       IN  /\ port_rx' = SubSeq(port_rx, bytes_read + 1, Len(port_rx))
           /\ rx' = IF Len(buffer) < Len(rx.ids) * 17
                    THEN [rx EXCEPT !.buffer = buffer]
                    ELSE [rx EXCEPT !.pc = "done", !.buffer = buffer,
                                    !.res = out.res, !.packs = out.packs]
    /\ UNCHANGED <<port_wire, link_frames>>
    /\ LinkFrame

\* port.read with no byte for 10 ms: the TimedOut error returns from rx_unpacks
\* and what the buffer held is dropped.
PortReadTimeout ==
    /\ rx.pc = "reading"
    /\ port_rx = <<>>
    /\ rx' = [rx EXCEPT !.pc = "done", !.buffer = <<>>, !.res = "timeout"]
    /\ UNCHANGED <<port_wire, port_rx, link_frames>>
    /\ LinkFrame

\* Id lists of the frames of one send_commands call.
Batches == UNION {[1..n -> Ids] : n \in 1..MaxBatch}

NextLink ==
    \/ \E ids \in Batches : SendCommands(ids)
    \/ AdapterDelivers
    \/ PortRead
    \/ PortReadTimeout

SpecLink == InitSession /\ [][NextLink]_vars

\* ------------------------------------------------- the codec on its own
\* The packing and scaling functions applied to arguments of their whole
\* domain, one application per step.

CodecFrame ==
    UNCHANGED <<session, shared, locks, worker, caller, history, pause_held, reset_merged, link>>

\* ExId values: ids and data words at the edges of their widths, every
\* CanComMode ordinal (AnnounceDevId = 0 .. ModeTotal = 22), every 3-bit res.
ExIdIds == {0, 1, 127, 253, 255}
ExIdDatas == {0, 1, 255, 256, 32768, 65535}
CanComModes == 0..22
ExIds == [id : ExIdIds, data : ExIdDatas, mode : CanComModes, res : 0..7]

\* unpack_ex_id(pack_ex_id(&x))
PackExId ==
    /\ codec.op = "input" /\ codec.fn = "pack_ex_id"
    /\ codec' = [op |-> "pack_ex_id", arg |-> codec.arg,
                 bytes |-> ExIdBytes(codec.arg),
                 out |-> unpack_ex_id(ExIdBytes(codec.arg))]
    /\ CodecFrame

\* Received frames: from a configured motor or from an id without a config,
\* with some fault bits and each MotorMode in ex_id.data, of every CanComMode,
\* with 8 data bytes or 4.
FeedbackCanIds == AllIds
FeedbackFaults == {0, 1, 63}
FeedbackData ==
    {<<0, 0, 0, 0, 0, 0, 0, 0>>, <<127, 255, 128, 0, 0, 1, 0, 0>>,
     <<255, 255, 255, 255, 255, 255, 0, 0>>, <<0, 0, 0, 0>>}
FeedbackPacks ==
    {[ex_id |-> [id |-> CAN_ID_DEBUG_UI, data |-> c + f * 256 + m * 16384,
                 mode |-> cm, res |-> 0],
      len |-> Len(d), data |-> d] :
        c \in FeedbackCanIds, f \in FeedbackFaults, m \in 0..3,
        cm \in CanComModes, d \in FeedbackData}

\* Motors::unpack_feedback(&pack)
UnpackFeedback ==
    /\ codec.op = "input" /\ codec.fn = "unpack_feedback"
    /\ codec' = [op |-> "unpack_feedback", arg |-> codec.arg,
                 raw |-> unpack_raw_feedback(codec.arg),
                 out |-> unpack_feedback(codec.arg)]
    /\ CodecFrame

\* The ranges of the configuration table, every field of every variant, and
\* the values of a range (all multiples of 0.5 in it).
MotorTypes == {"Type01", "Type02", "Type03", "Type04"}
ConfigRanges ==
    UNION {{<<ROBSTRIDE_CONFIGS(t).p_min, ROBSTRIDE_CONFIGS(t).p_max>>,
            <<ROBSTRIDE_CONFIGS(t).v_min, ROBSTRIDE_CONFIGS(t).v_max>>,
            <<ROBSTRIDE_CONFIGS(t).kp_min, ROBSTRIDE_CONFIGS(t).kp_max>>,
            <<ROBSTRIDE_CONFIGS(t).kd_min, ROBSTRIDE_CONFIGS(t).kd_max>>,
            <<ROBSTRIDE_CONFIGS(t).t_min, ROBSTRIDE_CONFIGS(t).t_max>>} : t \in MotorTypes}
FloatArgs ==
    UNION {{[x |-> x, x_min |-> r[1], x_max |-> r[2]] : x \in r[1]..r[2]} : r \in ConfigRanges}

\* float_to_uint(x, x_min, x_max, 16)
FloatToUint ==
    /\ codec.op = "input" /\ codec.fn = "float_to_uint"
    /\ codec' = [op |-> "float_to_uint", arg |-> codec.arg,
                 out |-> float_to_uint(codec.arg.x, codec.arg.x_min, codec.arg.x_max)]
    /\ CodecFrame

\* The arguments the functions are applied to.
CodecInputs ==
    {[op |-> "input", fn |-> "pack_ex_id", arg |-> x] : x \in ExIds}
    \cup {[op |-> "input", fn |-> "unpack_feedback", arg |-> pack] : pack \in FeedbackPacks}
    \cup {[op |-> "input", fn |-> "float_to_uint", arg |-> a] : a \in FloatArgs}

InitCodec == InitProgram /\ min_update_rate = 10 /\ codec \in CodecInputs

NextCodec ==
    \/ PackExId
    \/ UnpackFeedback
    \/ FloatToUint

SpecCodec == InitCodec /\ [][NextCodec]_vars

\* ------------------------------------------------------------------ claims

\* C1: after stop() has returned to its caller, no frame is written to the
\* serial link any more (by the control thread's iteration or shutdown traffic,
\* or by set_min_update_rate).
C1_NoFrameAfterStop == ~wrote_after_stop

\* C2: feedback decoded by the session is published: when the control thread
\* has taken its feedback snapshot, the supervisor's latest_feedback map (what
\* get_latest_feedback returns) has an entry for every motor whose control round
\* trip succeeded in an earlier iteration.
C2_FeedbackPublished ==
    wpc = "zero_lock" => fb_decoded \subseteq DOMAIN latest_feedback

\* C3: set_min_update_rate, called while stop() has not been called, does not have
\* to wait for the control thread to exit: a call waiting for the session mutex
\* is not kept out by a control thread that is between two session operations
\* (asleep at the end of an iteration or in a paused iteration).
C3_SetMinUpdateRateNotBlocked ==
    (cpc = "smur_wait" /\ running /\ wpc \in {"sleep", "pause_sleep"})
        => motors_lock # "worker"

\* C4: a setpoint setter called with an id that was not configured at construction
\* leaves the target map unchanged: the key set of target_params is always the
\* set of configured ids.
C4_TargetKeysAreConfigured == DOMAIN target_params = Ids

\* C5: every entry of the target parameter map has kp >= 0 and kd >= 0.
C5_GainsNonNegative ==
    \A id \in DOMAIN target_params :
        target_params[id].kp >= 0 /\ target_params[id].kd >= 0

\* C6: add_motor_to_zero(id) for a configured id zeroes the target position,
\* velocity and torque of id, keeps its kp and kd and every other motor's targets,
\* and returns Ok with id in the pending-zero set; for an id that is not configured
\* it returns an error and never reaches the pending-zero set.
C6_AddMotorToZero ==
    [][/\ (cpc = "idle" /\ cpc' = "zero_wait") =>
            /\ c_id' \in Ids
            /\ target_params' =
                 [target_params EXCEPT ![c_id'] =
                     [position |-> 0, velocity |-> 0, kp |-> target_params[c_id'].kp,
                      kd |-> target_params[c_id'].kd, torque |-> 0]]
       /\ (cpc = "zero_wait" /\ cpc' = "idle") =>
            /\ last_call' = "ok"
            /\ motors_to_zero' = motors_to_zero \cup {c_id}
            /\ target_params' = target_params
       /\ motors_to_zero' \subseteq Ids
      ]_vars

\* C7: failed_commands[id] <= total_commands[id] for every configured id, in
\* every state, whatever round trips fail and wherever reset_command_counters
\* and the counter reads fall.
C7_FailedLeTotal ==
    \A id \in Ids : failed_commands[id] <= total_commands[id]

\* C8: total_commands counts every attempt: the zero batch adds 2 for each of its
\* ids (the set_zeros attempt and the zero-valued MIT command attempt), the
\* control batch adds 1 for every configured id, and a count only decreases when
\* reset_command_counters sets all counts to 0.
C8_TotalCountsAttempts ==
    [][/\ (wpc = "zero_total" /\ wpc' # wpc) =>
            \A id \in Range(w_ids) : total_commands'[id] = total_commands[id] + 2
       /\ (wpc = "ctrl_total" /\ wpc' # wpc) =>
            \A id \in Ids : total_commands'[id] = total_commands[id] + 1
       /\ (\E id \in Ids : total_commands'[id] < total_commands[id]) =>
            \A id \in Ids : total_commands'[id] = 0 /\ failed_commands'[id] = 0
      ]_vars

\* C9: no session error and no reply content (read timeout, bad preamble, unknown
\* can_id, fewer than 8 payload bytes) kills the control thread: it leaves its
\* loop only by reading running = false.
C9_WorkerSurvivesReplies == wpc # "panicked"

\* The frames send_set_zeros(ids) is to write: a MotorReset for every id, then a
\* MotorZero with payload 1,0,0,0,0,0,0,0 for every id, then a MotorIn for every id.
C10_Expected(ids) ==
    [k \in 1..Len(ids) |->
        [mode |-> "MotorReset", id |-> ids[k], data |-> 253, len |-> 8,
         payload |-> <<0, 0, 0, 0, 0, 0, 0, 0>>]]
    \o [k \in 1..Len(ids) |->
        [mode |-> "MotorZero", id |-> ids[k], data |-> 253, len |-> 8,
         payload |-> <<1, 0, 0, 0, 0, 0, 0, 0>>]]
    \o [k \in 1..Len(ids) |->
        [mode |-> "MotorIn", id |-> ids[k], data |-> 253, len |-> 8,
         payload |-> <<0, 0, 0, 0, 0, 0, 0, 0>>]]

\* C10: send_set_zeros(ids) with all ids configured writes its frames in three
\* phases in the order of ids: at every point of the call the frames written are
\* a prefix of reset(ids), zero(ids), start(ids), and all of it when the call
\* returns Ok (no round trip failed).
C10_SetZerosOrder ==
    LET ids == call.ids
        here == call.op = "set_zeros" \/ (call.op = "done" /\ call.phase = "set_zeros")
    IN  (here /\ Range(ids) \subseteq Ids) =>
            /\ Len(tx_log) <= 3 * Len(ids)
            /\ \A k \in 1..Len(tx_log) : tx_log[k] = C10_Expected(ids)[k]
            /\ (call.op = "done" /\ call.res = "ok") => Len(tx_log) = 3 * Len(ids)

\* A send_set_zeros over two different motors has returned Ok after six frames.
C10_Witness ==
    /\ call.op = "done" /\ call.phase = "set_zeros" /\ call.res = "ok"
    /\ Len(call.ids) = 2 /\ call.ids[1] # call.ids[2]
    /\ Len(tx_log) = 6

\* C11: a send_set_zeros(ids) whose list holds an id without a config, whatever
\* the other ids are, returns InvalidInput at once: the step that enters it ends
\* it, no frame is written, and the cached run mode and the feedback cache are
\* as they were.
C11_SetZerosInvalidInput ==
    [][(/\ call'.op = "set_zeros" \/ (call'.op = "done" /\ call'.phase = "set_zeros")
        /\ \E k \in 1..Len(call'.ids) : call'.ids[k] \notin Ids)
       => /\ call'.op = "done" /\ call'.res = "invalid_input"
          /\ tx_log' = <<>>
          /\ mode' = mode
          /\ session_feedback' = session_feedback
      ]_vars

\* send_set_zeros([configured, unconfigured]) has returned InvalidInput on a
\* session whose run mode cache was already set.
C11_Witness ==
    /\ call.op = "done" /\ call.phase = "set_zeros" /\ call.res = "invalid_input"
    /\ Len(call.ids) = 2 /\ call.ids[1] \in Ids /\ call.ids[2] \notin Ids
    /\ mode = "MitMode" /\ tx_log = <<>>

\* C12: a batch is not cut short by one motor's failed round trip: when
\* send_set_zeros or send_motor_controls over configured ids has returned, a
\* frame has gone out for every motor of the batch (its MotorReset, its
\* MotorCtrl), whichever round trips timed out on the way.
C12_BatchNotAborted ==
    (/\ call.op = "done" /\ call.phase \in {"set_zeros", "controls"}
     /\ call.res # "invalid_input")
    => \A id \in Range(call.ids) :
          \E k \in 1..Len(tx_log) :
              /\ tx_log[k].id = id
              /\ tx_log[k].mode = (IF call.phase = "set_zeros" THEN "MotorReset"
                                   ELSE "MotorCtrl")

\* The frames of log with the given mode addressed to motor id.
C13_Frames(log, m, id) == {k \in 1..Len(log) : log[k].mode = m /\ log[k].id = id}

\* C13: the run mode is polled and set once.  The first send_motor_controls
\* after construction starts with the poll; a poll is one SdoRead per configured
\* id; SdoWrite frames, at most one per id, follow only a poll that did not find
\* every answering motor in MitMode; and once a send_motor_control has returned
\* Ok, no SdoRead and no SdoWrite frame is written any more.
C13_RunModeCache ==
    /\ [](call.op = "controls" =>
            /\ \A id \in Ids :
                  /\ Cardinality(C13_Frames(tx_log, "SdoRead", id)) <= 1
                  /\ Cardinality(C13_Frames(tx_log, "SdoWrite", id)) <= 1
            /\ call.phase \in {"set_mode", "ctrl"} =>
                  \/ \A id \in Ids : C13_Frames(tx_log, "SdoRead", id) = {}
                  \/ \A id \in Ids : C13_Frames(tx_log, "SdoRead", id) # {}
            /\ call.phase = "set_mode" =>
                  \E id \in DOMAIN call.modes : call.modes[id] # "MitMode")
    /\ [][/\ (call.op = "none" /\ call'.op = "controls") => call'.phase = "get_mode"
          /\ (fb_decoded # {} /\ Len(tx_log') = Len(tx_log) + 1) =>
                tx_log'[Len(tx_log')].mode \notin {"SdoRead", "SdoWrite"}
         ]_vars

\* A send_motor_controls over two motors has returned Ok having written two
\* MotorCtrl frames and nothing else: a call that found the mode cached.
C13_Witness ==
    /\ call.op = "done" /\ call.phase = "controls" /\ call.res = "ok"
    /\ Len(tx_log) = 2
    /\ \A k \in 1..Len(tx_log) : tx_log[k].mode = "MotorCtrl"
    /\ fb_decoded = Ids

\* min(timeout * 20, 100000) of a u32 timeout, the product taken exactly.
C14_Expected(timeout) ==
    IF timeout[1] > 0 \/ timeout[2] > 5000 THEN 100000 ELSE timeout[2] * 20

\* C14: every step of send_can_timeout(timeout), for every u32 timeout, writes a
\* ParaWrite frame with payload 0C 20 04 00 and min(timeout * 20, 100000) as
\* little-endian u32 in bytes 4..7, the product taken without wrap-around, and
\* the call does not abort.
C14_CanTimeoutFrame ==
    [][call.op = "can_timeout" =>
         LET v == C14_Expected(call.timeout)
         IN  /\ call'.op \in {"can_timeout", "done"}
             /\ tx_log' = Append(tx_log,
                    [mode |-> "ParaWrite", id |-> call.ids[call.i], data |-> 253,
                     len |-> 8,
                     payload |-> <<12, 32, 4, 0, v % 256, (v \div 256) % 256,
                                   (v \div 65536) % 256, v \div 16777216>>])
      ]_vars

\* C15: the timeout handed to send_can_timeout by the control thread at startup
\* and by set_min_update_rate is the ceiling of 1000 / min_update_rate
\* milliseconds (334 for 3 Hz).
C15_TimeoutIsCeiling ==
    [][(call'.op = "can_timeout" /\ call.op # "can_timeout") =>
          call'.timeout =
              <<0, (1000 + min_update_rate' - 1) \div min_update_rate'>>
      ]_vars

\* C16: whenever stop() is called, be it during the control thread's startup, the
\* thread's shutdown writes a MotorReset frame for the motor the session addresses
\* first (the only motor of a one-motor supervisor) and leaves that motor's
\* total_commands >= 1.
C16_StopDuringStartup ==
    [][(wpc = "shut_resets" /\ wpc' = "done") =>
          /\ \E k \in 1..Len(tx_log) :
                tx_log[k].mode = "MotorReset" /\ tx_log[k].id = cfg_keys[1]
          /\ total_commands'[cfg_keys[1]] >= 1
      ]_vars

\* C20: the control thread and a caller never wait for each other: in no state
\* does the control thread, holding the session mutex, wait for the
\* min_update_rate lock (after send_starts, before send_can_timeout) while a
\* set_min_update_rate call, holding that lock for writing, waits for the
\* session mutex.
C20_NoDeadlock ==
    ~(/\ WorkerReturned("start_starts") /\ motors_lock = "worker"
      /\ cpc = "smur_wait" /\ rate_lock = "caller")

\* C17: stop is final and is obeyed: running never goes back to true, and once
\* it is false the control thread comes to the end of its shutdown sequence,
\* unless a serial operation did not return (the thread panicked inside it).
C17_StoppedIsReached ==
    /\ [][running' => running]_vars
    /\ (~running) ~> (wpc = "done" \/ wpc = "panicked")

\* u is the 16-bit code of x in the range lo..hi: 0 at or below lo, 65535 at or
\* above hi, and in between the whole part of (x - lo) * 65535 / (hi - lo).
C18_Encodes(u, x, lo, hi) ==
    IF x <= lo THEN u = 0
    ELSE IF x >= hi THEN u = 65535
    ELSE /\ u \in 0..65535
         /\ u * (hi - lo) <= (x - lo) * 65535
         /\ (x - lo) * 65535 < (u + 1) * (hi - lo)

\* C18: every frame send_motor_control(id, params) writes for its command is a
\* MotorCtrl frame to id with 8 payload bytes, ex_id.data the code of the torque
\* and the payload the codes of position, velocity, kp and kd as big-endian
\* pairs in that order, each in the range of the config of id's motor type; all
\* zero params for a variant 04 motor give 32767 and 7F FF 7F FF 00 00 00 00.
C18_MotorCtrlFrame ==
    [][(/\ Len(tx_log') = Len(tx_log) + 1
        /\ tx_log'[Len(tx_log')].mode = "MotorCtrl")
       => LET f == tx_log'[Len(tx_log')]
              id == call.ids[call.i]
              prm == call.params[id]
              cfg == ROBSTRIDE_CONFIGS(MotorTypeOf(id))
              word(k) == f.payload[k] * 256 + f.payload[k + 1]
          IN  /\ f.id = id /\ f.len = 8 /\ Len(f.payload) = 8
              /\ \A k \in 1..8 : f.payload[k] \in 0..255
              /\ C18_Encodes(f.data, prm.torque, cfg.t_min, cfg.t_max)
              /\ C18_Encodes(word(1), prm.position, cfg.p_min, cfg.p_max)
              /\ C18_Encodes(word(3), prm.velocity, cfg.v_min, cfg.v_max)
              /\ C18_Encodes(word(5), prm.kp, cfg.kp_min, cfg.kp_max)
              /\ C18_Encodes(word(7), prm.kd, cfg.kd_min, cfg.kd_max)
              /\ (/\ MotorTypeOf(id) = "Type04"
                  /\ prm = [position |-> 0, velocity |-> 0, kp |-> 0, kd |-> 0,
                            torque |-> 0])
                 => /\ f.data = 32767
                    /\ f.payload = <<127, 255, 127, 255, 0, 0, 0, 0>>
      ]_vars

\* A send_motor_controls has returned Ok after writing, among its frames, the
\* all-zero command to the variant 04 motor 2.
C18_Witness ==
    /\ call.op = "done" /\ call.phase = "controls" /\ call.res = "ok"
    /\ \E k \in 1..Len(tx_log) :
          tx_log[k] = [mode |-> "MotorCtrl", id |-> 2, data |-> 32767, len |-> 8,
                       payload |-> <<127, 255, 127, 255, 0, 0, 0, 0>>]

\* C19: every frame written to the link is 17 bytes long: 'A', 'T' in bytes 0..1,
\* four bytes of extended id, the length 8 in byte 6, 8 payload bytes, and
\* '\r', '\n' in bytes 15..16.
C19_FrameIs17Bytes ==
    \A k \in 1..Len(tx_log) :
        LET b == tx_bytes(tx_log[k])
        IN  /\ Len(b) = 17
            /\ b[1] = 65 /\ b[2] = 84
            /\ b[7] = 8
            /\ b[16] = 13 /\ b[17] = 10
            /\ \A j \in 1..17 : b[j] \in 0..255
            /\ SubSeq(b, 8, 15) = tx_log[k].payload

\* One send_motor_controls call has written SdoRead, SdoWrite and MotorCtrl
\* frames.
C19_Witness ==
    /\ \E k \in 1..Len(tx_log) : tx_log[k].mode = "SdoRead"
    /\ \E k \in 1..Len(tx_log) : tx_log[k].mode = "SdoWrite"
    /\ \E k \in 1..Len(tx_log) :
          /\ tx_log[k].mode = "MotorCtrl"
          /\ Len(tx_bytes(tx_log[k])) = 17

\* C21: while the control thread is inside the serial round trips of its control
\* batch, the target parameter map is not locked, so that a setpoint setter can
\* take its write lock and return at once.
C21_SettersNotStalled ==
    (wpc = "ctrl_controls" /\ call.op = "controls") => CanWriteTargets

\* C22: the cached run mode is backed by the devices.  For every motor whose
\* SdoWrite round trip of the mode switch in progress is over, a cached mode X
\* other than UnsetMode was either reported by that motor in the poll or
\* acknowledged by it in reply to the SdoWrite of X.
C22_CacheBackedByDevices ==
    (call.op = "controls" /\ call.phase = "set_mode" /\ mode # "UnsetMode") =>
        \A k \in 1..(call.j - 1) :
            LET id == cfg_keys[k]
            IN  \/ id \in DOMAIN call.modes /\ call.modes[id] = mode
                \/ id \in call.feedbacks

C24_ZeroBeforeFirstCtrl ==
    \A id \in DOMAIN first_frame : first_frame[id] # "MotorCtrl"

\* C25: the bus watchdog is armed before any control frame.  The control thread
\* writes ParaWrite frames only in its start-up sequence and MotorCtrl frames
\* only in the loop it enters next, so: when send_can_timeout of the start-up
\* sequence has returned and the loop is about to be entered, a ParaWrite frame
\* for index 0x200C has been written to every configured id.
C25_WatchdogArmedBeforeLoop ==
    WorkerReturned("start_timeout") =>
        \A id \in Ids :
            \E k \in 1..Len(tx_log) :
                /\ tx_log[k].mode = "ParaWrite" /\ tx_log[k].id = id
                /\ SubSeq(tx_log[k].payload, 1, 2) = <<12, 32>>

\* C26: the shutdown sequence.  When the zero commands after the loop have
\* returned, a zero-valued MotorCtrl frame has been written to every motor from
\* which feedback was decoded; when the control thread has ended, the frames of
\* its last operation are one MotorReset frame for each configured id, whatever
\* the replies were.
C26_ShutdownFrames ==
    /\ WorkerReturned("shut_controls") =>
            \A id \in fb_decoded : MotorCtrlPack(id, DefaultParams) \in Range(tx_log)
    /\ wpc = "done" =>
            /\ Len(tx_log) = Len(cfg_keys)
            /\ \A k \in 1..Len(cfg_keys) : tx_log[k] = ResetPack(cfg_keys[k])

\* The control thread writes a frame in this step.
C27_WorkerWrites == call.owner = "worker" /\ Len(tx_log') = Len(tx_log) + 1

\* C27 as stated: a paused iteration writes no frame and changes none of the
\* restart flag, the pending-zero set, the counters, the published feedback and
\* the actual update rate, and once the control thread has seen the flag set it
\* writes a frame again only after toggle_pause has cleared the flag.
C27_FramesOnlyAfterResume ==
    [][ /\ ( \/ wpc = "check_paused" /\ paused /\ wpc' # wpc
             \/ wpc = "pause_sleep" /\ wpc' # wpc ) =>
                /\ wpc' \in {"pause_sleep", "loop_top"}
                /\ UNCHANGED <<tx_log, restart, motors_to_zero, total_commands,
                               failed_commands, latest_feedback, actual_update_rate>>
        /\ C27_WorkerWrites => ~pause_held
      ]_vars

\* C27 amended: the same, except that the frames of the shutdown sequence are
\* written once stop() has cleared running, whether or not the flag was cleared.
C27_PausedIterationIsInert ==
    [][ /\ ( \/ wpc = "check_paused" /\ paused /\ wpc' # wpc
             \/ wpc = "pause_sleep" /\ wpc' # wpc ) =>
                /\ wpc' \in {"pause_sleep", "loop_top"}
                /\ UNCHANGED <<tx_log, restart, motors_to_zero, total_commands,
                               failed_commands, latest_feedback, actual_update_rate>>
        /\ (C27_WorkerWrites /\ pause_held) =>
                /\ ~running
                /\ wpc \in {"shut_controls", "shut_resets"}
      ]_vars

\* A paused iteration is asleep while a restart request and a zero request are
\* pending and no command has been counted.
C27_Witness ==
    /\ wpc = "pause_sleep" /\ paused /\ pause_held
    /\ restart /\ motors_to_zero = Ids

\* C28 as stated, the counting clause: one reset() call causes exactly one
\* in-loop sequence, so no reset() call is made for which the sequence that
\* answers it also answers an earlier call.
C28_OneSequencePerCall == ~reset_merged

\* C28 amended: restart is a one-shot flag.  An in-loop sequence of resets and
\* starts begins only with the flag set, in an iteration that has read running
\* as true and paused as false, and clears the flag; only reset() sets the
\* flag, and it changes neither running nor paused; the sequence is all the
\* MotorReset frames, then all the MotorIn frames.  (Calls made while the flag
\* is still set share one sequence.)
C28_RestartIsOneShot ==
    [][ /\ (wpc' = "restart_resets" /\ wpc # "restart_resets") =>
              /\ wpc = "check_restart" /\ restart /\ ~restart' /\ ~pause_held
        /\ (wpc' = "check_restart" /\ wpc # "check_restart") =>
              /\ wpc = "check_paused" /\ ~paused
        /\ (wpc' = "check_paused" /\ wpc # "check_paused") =>
              /\ wpc = "loop_top" /\ running
        /\ (restart' /\ ~restart) =>
              /\ cpc = "idle" /\ wpc' = wpc
              /\ UNCHANGED <<running, paused>>
        /\ (restart /\ ~restart') => wpc' = "restart_resets"
        /\ (wpc \in {"restart_resets", "restart_starts"} /\ C27_WorkerWrites) =>
              tx_log'[Len(tx_log')].mode =
                  (IF wpc = "restart_resets" THEN "MotorReset" ELSE "MotorIn")
      ]_vars

\* The starts of a restart sequence have been written to every motor, the flag
\* is clear, and running and paused are as the iteration read them.
C28_Witness ==
    /\ WorkerReturned("restart_starts") /\ call.res = "ok"
    /\ Len(tx_log) = NumMotors
    /\ ~restart /\ running /\ ~paused

\* C29: request and reply stay paired.  With an adapter that answers every
\* frame once and in order, the packs a send_commands call gets back are the
\* replies to the frames that call wrote: the k-th pack comes from the motor
\* the k-th frame went to and answers that frame, whatever happened to the
\* calls before it.
C29_ReplyAnswersRequest ==
    (rx.pc = "done" /\ rx.res = "ok") =>
        \A k \in 1..Len(rx.ids) :
            /\ k <= Len(rx.packs)
            /\ rx.packs[k].ex_id.data % 256 = rx.ids[k]
            /\ rx.packs[k].data[1] = rx.first + k - 1

\* What rx_unpacks(count) returns if it decodes the first 17 * count bytes of
\* its buffer and nothing else.
C30_Expected(buffer, count) ==
    rx_chunks(SubSeq(buffer, 1, 17 * count))

\* C30: rx_unpacks(n) returns the n records of the first 17 * n bytes of its
\* buffer, also when the reads brought more bytes than that, and returns an
\* error and no record when one of these n records does not start with "AT".
C30_FirstRecordsOnly ==
    (rx.pc = "done" /\ rx.res # "timeout") =>
        LET n == Len(rx.ids)
            expected == C30_Expected(rx.buffer, n)
        IN  /\ rx.res = expected.res
            /\ rx.packs = expected.packs
            /\ rx.res = "ok" => Len(rx.packs) = n

\* C31: an ExId whose fields are within their bit widths (id 8 bits, data 16
\* bits, mode one of the 23 ordinals, res 3 bits, res # 0 included) comes back
\* unchanged from unpack_ex_id(pack_ex_id(x)), and the low three bits of the
\* packed word are 0b100.
C31_ExIdRoundTrip ==
    (/\ codec.op = "pack_ex_id"
     /\ codec.arg.id \in 0..255 /\ codec.arg.data \in 0..65535
     /\ codec.arg.mode \in 0..22 /\ codec.arg.res \in 0..7)
    => (codec.out = codec.arg /\ codec.bytes[4] % 8 = 4)
\* C32: feedback decoded from a reply frame whose mode is not MotorFeedback has
\* position, velocity and torque equal to zero, while can_id (the low 8 bits of
\* ex_id.data), faults (bits 8..13) and MotorMode (bits 14..15) are those of
\* the frame.
C32_NonFeedbackDecodesZero ==
    (/\ codec.op = "unpack_feedback"
     /\ codec.arg.ex_id.mode # CanComMode("MotorFeedback")
     /\ codec.out.res = "ok")
    => /\ codec.out.position = 0 /\ codec.out.velocity = 0 /\ codec.out.torque = 0
       /\ codec.out.can_id = codec.arg.ex_id.data % 256
       /\ codec.out.faults = (codec.arg.ex_id.data \div 256) % 64
       /\ codec.out.mode = codec.arg.ex_id.data \div 16384
\* C33: for every range [min, max] of the configuration table and every x in
\* it, float_to_uint(x, min, max, 16) is the integer nearest to
\* (x - min) * 65535 / (max - min): it is at most one half away from it
\* (either neighbour counts when the scaled value is halfway between two).
C33_NearestInteger ==
    (/\ codec.op = "float_to_uint"
     /\ codec.arg.x_min <= codec.arg.x /\ codec.arg.x <= codec.arg.x_max)
    => LET span == codec.arg.x_max - codec.arg.x_min
           num == (codec.arg.x - codec.arg.x_min) * 65535
           diff == codec.out * span - num
       IN  2 * diff <= span /\ 0 - span <= 2 * diff
====
